---- MODULE Spec2Model ----
(***************************************************************************)
(* The proximity-alert pipeline of the hazard-reporting dashboard:         *)
(*   AuthProvider      (session: user, token)                              *)
(*   LocationProvider  (currentLocation, 30 s sampling)                    *)
(*   Dashboard         (hazard polling, socket, alert queue)               *)
(*   AlertNotification (per-alert timers)                                  *)
(*                                                                         *)
(* Time is the clock `now` in milliseconds.  The clock advances from one   *)
(* timer deadline to the next (Advance); everything else (inbound events,  *)
(* clicks, network completions) happens at the current clock reading.      *)
(* React effects are run together with the state update that triggers      *)
(* them.  A socket stands for a connected socket: an event is delivered to *)
(* the handler of every socket that is open.                               *)
(*                                                                         *)
(* Positions are in micro-degrees, distances in metres.  The haversine     *)
(* routine is computed in fixed point (angles in 1e-7 rad, cosines in      *)
(* 1e-4), which is good to about one metre for positions less than         *)
(* 0.12 degrees apart and latitudes below 60 degrees.                      *)
(***************************************************************************)
EXTENDS Integers, Sequences, FiniteSets, Bags, TLC

VARIABLES
  now,            \* Date.now(), ms
  user,           \* AuthProvider: user state (Null or [user_id, name, token])
  stored,         \* localStorage: the items stored, by key
  authReqs,       \* authAPI.login and authAPI.signup requests in flight
  currentLocation,\* LocationProvider: currentLocation (Null or Position)
  locationError,  \* LocationProvider: locationError set?
  locDue,         \* LocationProvider: next firing of the 30 s interval, or Null
  geoReqs,        \* getCurrentPosition calls in flight: bag of kinds
  mounted,        \* a Dashboard instance is mounted
  hazards,        \* Dashboard: hazards state
  loading,        \* Dashboard: loading state
  alerts,         \* Dashboard: alerts state (the alert queue)
  pollDue,        \* Dashboard: next firing of the 30 s poll interval, or Null
  fetches,        \* hazardAPI.getHazards requests in flight: of the mounted
                  \* Dashboard (live) and of unmounted ones (dead)
  toasts,         \* "Could not fetch hazards" toasts shown
  socket,         \* Dashboard: the socket its effect holds (Null or
                  \* [token, loc]), which the effect's cleanup disconnects
  channels,       \* the sockets that are open, in the order they were opened
  pushes,         \* hazardAPI.updateLocation requests in flight: bag of Positions
  dismissTimers,  \* pending setTimeout(onDismiss, 300), in scheduling order
  nEvents,        \* hazard_alert events handled so far
  nEnqueued,      \* AlertRecords appended so far
  nAlertFetch,    \* fetchHazards calls made by the hazard_alert handler
  called,         \* arrival numbers of the AlertRecords whose onDismiss ran
  last            \* the last operation, for reference by the properties

vars == <<now, user, stored, authReqs, currentLocation, locationError, locDue, geoReqs,
          mounted, hazards, loading, alerts, pollDue, fetches, toasts,
          socket, channels, pushes, dismissTimers, nEvents, nEnqueued,
          nAlertFetch, called, last>>

----------------------------------------------------------------------------
(* Bounds of the model *)

MaxNow == 30500
MaxEvents == 2
MaxInFlight == 1
MaxToasts == 1
MaxAuthInFlight == 2

(* Program constants *)

AdmissionRadiusKm == 3
AutoDismissMs == 10000
SlideInMs == 100
DismissDelayMs == 300
PollMs == 30000
LocationMs == 30000

Null == [null |-> TRUE]

Home == [lat |-> 40000000, lon |-> -74000000]
North(p, d) == [lat |-> p.lat + d, lon |-> p.lon]

\* where the user can be, and where hazards are reported: 3000 m, 3002 m
\* and 11118 m north of Home
UserPositions == {Home, North(Home, 100000)}
EventLocations == {North(Home, 26990), North(Home, 27000), North(Home, 100000)}
Events == [location : EventLocations]

\* an event with no location, and all that the channel can deliver
Malformed == [message |-> "no location"]
Inbound == Events \cup {Malformed}

\* Positions for the distance routine: a grid around Home, at most 0.1
\* degrees apart
GridPositions ==
  {[lat |-> Home.lat + dlat, lon |-> Home.lon + dlon] :
     dlat \in {-50000, -26990, 0, 10000, 26990, 50000},
     dlon \in {-50000, 0, 20000, 50000}}

\* The hazards the server knows, by _id: location and timestamp (a day and
\* the milliseconds into it).  1 and 3 are equally far from Home and equally
\* old; 2 is older, and later in its day.
Hazard(id) ==
  CASE id = 1 -> [location |-> North(Home, 26990),
                  timestamp |-> [day |-> 1, ms |-> 500]]
    [] id = 2 -> [location |-> [lat |-> Home.lat + 10000, lon |-> Home.lon + 20000],
                  timestamp |-> [day |-> 0, ms |-> 900]]
    [] OTHER  -> [location |-> North(Home, -26990),
                  timestamp |-> [day |-> 1, ms |-> 500]]
HazardIds == 1..3

\* the lists of hazards a response can hold: up to three different hazards,
\* in any order
HazardLists ==
  {<<>>} \cup {<<a>> : a \in HazardIds}
         \cup {l \in [1..2 -> HazardIds] : l[1] # l[2]}
         \cup {l \in [1..3 -> HazardIds] :
                  l[1] # l[2] /\ l[1] # l[3] /\ l[2] # l[3]}

Tokens == {"t1", "t2"}
UserIds == {"u1"}
Accounts == {"u1", "u2"}
Names == {"n1"}
ServerLists == {<<1>>, <<2, 1>>}

----------------------------------------------------------------------------
(* Fixed-point arithmetic *)

Min(S) == CHOOSE x \in S : \A y \in S : x <= y

Abs(x) == IF x < 0 THEN -x ELSE x
Sgn(x) == IF x < 0 THEN -1 ELSE 1
\* division rounding toward zero, as symmetric in sign as IEEE rounding is
Trunc(n, d) == Sgn(n) * (Abs(n) \div d)

\* micro-degrees * PI / 180, in 1e-7 rad (for differences) and in 1e-4 rad
ToRad7(d) == Trunc(d * 17453, 100000)
ToRad4(d) == Trunc(Trunc(d, 1000) * 17453, 100000)

\* Math.sin of an angle in 1e-7 rad, result in 1e-7: x - x^3/6
Sin7(x) == x - Trunc(Trunc(x * x, 10000000) * x, 60000000)

\* Math.cos of an angle in 1e-4 rad, result in 1e-4: Taylor series to x^8
Cos4(x) ==
  LET x2 == (x * x) \div 10000
      x4 == (x2 * x2) \div 10000
      x6 == (x4 * x2) \div 10000
      x8 == (x6 * x2) \div 10000
  IN  10000 - x2 \div 2 + x4 \div 24 - x6 \div 720 + x8 \div 40320

RECURSIVE SqrtIter(_, _, _)
SqrtIter(n, lo, hi) ==
  IF lo >= hi THEN lo
  ELSE LET mid == (lo + hi + 1) \div 2
       IN  IF mid * mid <= n THEN SqrtIter(n, mid, hi)
                             ELSE SqrtIter(n, lo, mid - 1)

\* Math.sqrt(a), a in 1e-14, result in 1e-7
Sqrt7(a) == SqrtIter(a, 0, 46340)

\* Math.sqrt(1 - a), a in 1e-14, result in 1e-7: 1 - a/2
SqrtOneMinus7(a) == 10000000 - a \div 20000000

\* Math.atan2(y, x) for 0 <= y << x, both in 1e-7, result in 1e-7 rad
Atan2(y, x) ==
  LET t == y + (y * (10000000 - x)) \div 10000000
  IN  t - Trunc(Trunc(t * t, 10000000) * t, 30000000)

\* p * q / 1e4 without overflow, q <= 1e4
MulCos(p, q) == (p \div 10000) * q + ((p % 10000) * q) \div 10000

\* the routine with a result that is never below one metre
calculateDistanceFloor(lat1, lon1, lat2, lon2) ==
  LET R == 6371
      dLat == ToRad7(lat2 - lat1)
      dLon == ToRad7(lon2 - lon1)
      sLat == Sin7(Trunc(dLat, 2))
      sLon == Sin7(Trunc(dLon, 2))
      cc == (Cos4(ToRad4(lat1)) * Cos4(ToRad4(lat2))) \div 10000
      a == sLat * sLat + MulCos(sLon * sLon, cc)
      c == 2 * Atan2(Sqrt7(a), SqrtOneMinus7(a))
  IN  (R * c) \div 10000 + 1

\* the routine with Math.cos(lat1 * Math.PI / 180) twice, lat2 left out
calculateDistanceOneSided(lat1, lon1, lat2, lon2) ==
  LET R == 6371
      dLat == ToRad7(lat2 - lat1)
      dLon == ToRad7(lon2 - lon1)
      sLat == Sin7(Trunc(dLat, 2))
      sLon == Sin7(Trunc(dLon, 2))
      cc == (Cos4(ToRad4(lat1)) * Cos4(ToRad4(lat1))) \div 10000
      a == sLat * sLat + MulCos(sLon * sLon, cc)
      c == 2 * Atan2(Sqrt7(a), SqrtOneMinus7(a))
  IN  (R * c) \div 10000

\* Dashboard.calculateDistance, result in metres
calculateDistance(lat1, lon1, lat2, lon2) ==
  LET R == 6371
      dLat == ToRad7(lat2 - lat1)
      dLon == ToRad7(lon2 - lon1)
      sLat == Sin7(Trunc(dLat, 2))
      sLon == Sin7(Trunc(dLon, 2))
      cc == (Cos4(ToRad4(lat1)) * Cos4(ToRad4(lat2))) \div 10000
      a == sLat * sLat + MulCos(sLon * sLon, cc)
      c == 2 * Atan2(Sqrt7(a), SqrtOneMinus7(a))
  IN  (R * c) \div 10000

Distance(p, q) == calculateDistance(p.lat, p.lon, q.lat, q.lon)

\* HazardList.calculateDistance, result in metres
calculateDistanceList(lat1, lon1, lat2, lon2) ==
  LET R == 6371
      dLat == ToRad7(lat2 - lat1)
      dLon == ToRad7(lon2 - lon1)
      sLat == Sin7(Trunc(dLat, 2))
      sLon == Sin7(Trunc(dLon, 2))
      cc == (Cos4(ToRad4(lat1)) * Cos4(ToRad4(lat2))) \div 10000
      a == sLat * sLat + MulCos(sLon * sLon, cc)
      c == 2 * Atan2(Sqrt7(a), SqrtOneMinus7(a))
  IN  (R * c) \div 10000

\* the routine with another radius of the Earth
calculateDistanceDrift(lat1, lon1, lat2, lon2) ==
  LET R == 6378
      dLat == ToRad7(lat2 - lat1)
      dLon == ToRad7(lon2 - lon1)
      sLat == Sin7(Trunc(dLat, 2))
      sLon == Sin7(Trunc(dLon, 2))
      cc == (Cos4(ToRad4(lat1)) * Cos4(ToRad4(lat2))) \div 10000
      a == sLat * sLat + MulCos(sLon * sLon, cc)
      c == 2 * Atan2(Sqrt7(a), SqrtOneMinus7(a))
  IN  (R * c) \div 10000

\* HazardMap.calculateDistance, result in metres
calculateDistanceMap(lat1, lon1, lat2, lon2) ==
  LET R == 6371
      dLat == ToRad7(lat2 - lat1)
      dLon == ToRad7(lon2 - lon1)
      sLat == Sin7(Trunc(dLat, 2))
      sLon == Sin7(Trunc(dLon, 2))
      cc == (Cos4(ToRad4(lat1)) * Cos4(ToRad4(lat2))) \div 10000
      a == sLat * sLat + MulCos(sLon * sLon, cc)
      c == 2 * Atan2(Sqrt7(a), SqrtOneMinus7(a))
  IN  (R * c) \div 10000

DistanceList(p, q) == calculateDistanceList(p.lat, p.lon, q.lat, q.lon)
DistanceMap(p, q) == calculateDistanceMap(p.lat, p.lon, q.lat, q.lon)

----------------------------------------------------------------------------
(* The session: AuthProvider *)

\* localStorage.setItem(key, value), removeItem(key), getItem(key)
setItem(items, key, value) ==
  [k \in DOMAIN items \cup {key} |-> IF k = key THEN value ELSE items[k]]
removeItem(items, key) == [k \in DOMAIN items \ {key} |-> items[k]]
getItem(items, key) ==
  IF key \in DOMAIN items THEN [value |-> items[key]] ELSE Null
NoItems == [k \in {} |-> ""]

\* what login writes: token and user_id
StoreLogin(items, uid, tok) ==
  setItem(setItem(items, "token", tok), "user_id", uid)

\* what signup writes: token, user_id and name
StoreSignup(items, uid, name, tok) ==
  setItem(setItem(setItem(items, "token", tok), "user_id", uid), "name", name)

\* a logout that leaves the token stored
RemoveAllButToken(items) == removeItem(removeItem(items, "user_id"), "name")

\* what logout removes: token, user_id and name
RemoveAll(items) ==
  removeItem(removeItem(removeItem(items, "token"), "user_id"), "name")

\* AuthProvider's effect on mount: the user the stored items restore
Restore(items) ==
  LET token == getItem(items, "token")
      user_id == getItem(items, "user_id")
      name == getItem(items, "name")
  IN  IF token # Null /\ user_id # Null
        THEN [user_id |-> user_id.value,
              name |-> IF name # Null THEN name.value ELSE "",
              token |-> token.value]
        ELSE Null

LoginRequest(uid) == [kind |-> "login", user_id |-> uid, name |-> ""]
SignupRequest(uid, name) == [kind |-> "signup", user_id |-> uid, name |-> name]

IsAuthenticated(u) == u # Null

(* The alert queue: Dashboard's alerts state *)

\* the comparison as distance < 3
IsNearbyStrict(distance) == distance < AdmissionRadiusKm * 1000

\* distance <= 3 (kilometres; distances here are in metres)
IsNearby(distance) == distance <= AdmissionRadiusKm * 1000

\* the handler with no check of currentLocation
AdmitsUnchecked(loc, data) == loc = Null \/ IsNearby(Distance(loc, data.location))

\* the handler with no check of the distance
AdmitsAll(loc, data) == loc # Null

\* the hazard_alert handler's two conditions; loc is the currentLocation
\* its closure holds
Admits(loc, data) == loc # Null /\ IsNearby(Distance(loc, data.location))

\* Date.now().toString(): equal strings exactly for equal clock readings
NewId(t) == t

\* { ...data, id }, and what AlertNotification keeps for it once mounted;
\* clicked: the user clicked its X.  seq and pos are for the properties
\* only: the arrival number and the current Position at arrival
AlertWithId(data, t, n, p) ==
  [id |-> NewId(t), location |-> IF data \in Events THEN data.location ELSE Null,
   at |-> t, isVisible |-> FALSE,
   slid |-> FALSE, autoFired |-> FALSE, seq |-> n, pos |-> p, clicked |-> FALSE]

\* the new record put first: [alertWithId, ...prev]
EnqueueFront(prev, alertWithId) == <<alertWithId>> \o prev

\* setAlerts((prev) => [...prev, alertWithId])
Enqueue(prev, alertWithId) == Append(prev, alertWithId)

\* fetchHazards() called for every event, admitted or not
AlertRefreshAlways(admitted) == 1

\* the calls of fetchHazards the hazard_alert handler makes
AlertRefresh(admitted) == IF admitted THEN 1 ELSE 0

\* the oldest record removed, whatever its id
dismissOldest(prev, id) == IF prev = <<>> THEN prev ELSE Tail(prev)

\* setAlerts((prev) => prev.filter((alert) => alert.id !== id))
dismissAlert(prev, id) == SelectSeq(prev, LAMBDA alert : alert.id # id)

\* io(API_BASE_URL, {auth: {token}}) of the socket effect, whose handler
\* closes over the currentLocation of the render it belongs to
OpenSocket(u, loc) ==
  IF u = Null THEN Null ELSE [token |-> u.token, loc |-> loc]

\* a cleanup that leaves the socket open
KeepOpen(chs, s) == chs

\* socket.disconnect() of the effect's cleanup: the socket s is closed
Disconnect(chs, s) ==
  IF \E i \in DOMAIN chs : chs[i] = s
    THEN LET i == Min({j \in DOMAIN chs : chs[j] = s})
         IN  SubSeq(chs, 1, i - 1) \o SubSeq(chs, i + 1, Len(chs))
    ELSE chs

\* io(...) of the effect: the socket s is open
Connect(chs, s) == IF s = Null THEN chs ELSE Append(chs, s)

\* the socket effect run again with no cleanup of the run before
SocketEffectNoCleanup(chs, old, new) == Connect(chs, new)

\* the socket effect run again: the cleanup of the run before, then the
\* effect
SocketEffect(chs, old, new) == Connect(Disconnect(chs, old), new)

\* the hazard_alert handler reads data.location.lat once it has found a
\* currentLocation: a TypeError when the event has no location
Throws(loc, data) == loc # Null /\ data \notin Events

\* the handler of the socket s appends a record for the event
Handles(s, data) == ~Throws(s.loc, data) /\ Admits(s.loc, data)

\* n calls of fetchHazards by the mounted Dashboard
Fetching(n) == [fetches EXCEPT !.live = @ + n]

InFlight == fetches.live + fetches.dead

----------------------------------------------------------------------------
(* Timers *)

AlertDeadlines ==
  {alerts[k].at + SlideInMs : k \in {j \in DOMAIN alerts : ~alerts[j].slid}}
  \cup {alerts[k].at + AutoDismissMs : k \in {j \in DOMAIN alerts : ~alerts[j].autoFired}}

Deadlines ==
  AlertDeadlines
  \cup {dismissTimers[k].due : k \in DOMAIN dismissTimers}
  \cup (IF pollDue = Null THEN {} ELSE {pollDue.at})
  \cup (IF locDue = Null THEN {} ELSE {locDue.at})

Due(t) == t <= now

----------------------------------------------------------------------------
Init ==
  /\ now = 0
  /\ user = Null
  /\ stored = NoItems
  /\ authReqs = EmptyBag
  /\ currentLocation = Null
  /\ locationError = FALSE
  /\ locDue = Null
  /\ geoReqs = EmptyBag
  /\ mounted = FALSE
  /\ hazards = <<>>
  /\ loading = TRUE
  /\ alerts = <<>>
  /\ pollDue = Null
  /\ fetches = [live |-> 0, dead |-> 0]
  /\ toasts = 0
  /\ socket = Null
  /\ channels = <<>>
  /\ pushes = EmptyBag
  /\ dismissTimers = <<>>
  /\ nEvents = 0
  /\ nEnqueued = 0
  /\ nAlertFetch = 0
  /\ called = {}
  /\ last = [op |-> "init"]

authVars == <<user, stored, authReqs>>
locVars == <<currentLocation, locationError, locDue, geoReqs, pushes>>
sockVars == <<socket, channels>>
dashVars == <<mounted, hazards, loading, pollDue, toasts>>
queueVars == <<alerts, dismissTimers, nEnqueued, called>>
eventVars == <<nEvents, nAlertFetch>>

----------------------------------------------------------------------------
(* AuthProvider *)

\* setUser(u) with a user.  LocationProvider's effect runs when
\* isAuthenticated becomes true; the Dashboard's socket effect runs again
\* when the token differs.
setUser(u) ==
  LET reopen == mounted /\ user.token # u.token
  IN  /\ user' = u
      /\ IF IsAuthenticated(user)
           THEN UNCHANGED <<geoReqs, locDue>>
           ELSE /\ geoReqs' = geoReqs (+) SetToBag({"initial"})
                /\ locDue' = [at |-> now + LocationMs]
      /\ socket' = IF reopen THEN OpenSocket(u, currentLocation) ELSE socket
      /\ channels' = IF reopen THEN SocketEffect(channels, socket, socket')
                                ELSE channels
      /\ UNCHANGED <<now, currentLocation, locationError, pushes>>
      /\ UNCHANGED <<dashVars, queueVars, eventVars, fetches>>

\* login(data) is called: authAPI.login(data) is in flight
CallLogin(uid) ==
  /\ BagCardinality(authReqs) < MaxAuthInFlight
  /\ authReqs' = authReqs (+) SetToBag({LoginRequest(uid)})
  /\ last' = [op |-> "call_login"]
  /\ UNCHANGED <<now, user, stored, locVars, dashVars, fetches, sockVars>>
  /\ UNCHANGED <<queueVars, eventVars>>

\* signup(data) is called: authAPI.signup(data) is in flight
CallSignup(uid, name) ==
  /\ BagCardinality(authReqs) < MaxAuthInFlight
  /\ authReqs' = authReqs (+) SetToBag({SignupRequest(uid, name)})
  /\ last' = [op |-> "call_signup"]
  /\ UNCHANGED <<now, user, stored, locVars, dashVars, fetches, sockVars>>
  /\ UNCHANGED <<queueVars, eventVars>>

\* login, from the response on: the token and user_id are stored and the
\* user is set.  isAuthenticated becomes true: LocationProvider's effect
\* runs; a mounted Dashboard's socket effect re-runs when the token changed.
Login(uid, tok) ==
  LET u == [user_id |-> uid, name |-> "", token |-> tok]
      reopen == mounted /\ user.token # tok
  IN  /\ BagIn(LoginRequest(uid), authReqs)
      /\ BagCardinality(geoReqs) + BagCardinality(pushes) < MaxInFlight
      /\ authReqs' = authReqs (-) SetToBag({LoginRequest(uid)})
      /\ stored' = StoreLogin(stored, uid, tok)
      /\ setUser(u)
      /\ last' = [op |-> "login", fresh |-> ~IsAuthenticated(user),
                  reopened |-> reopen]

\* signup, from the response on: the token, user_id and name are stored and
\* the user is set
Signup(uid, name, tok) ==
  LET u == [user_id |-> uid, name |-> name, token |-> tok]
  IN  /\ BagIn(SignupRequest(uid, name), authReqs)
      /\ BagCardinality(geoReqs) + BagCardinality(pushes) < MaxInFlight
      /\ authReqs' = authReqs (-) SetToBag({SignupRequest(uid, name)})
      /\ stored' = StoreSignup(stored, uid, name, tok)
      /\ setUser(u)
      /\ last' = [op |-> "signup", fresh |-> ~IsAuthenticated(user)]

\* authAPI.login or authAPI.signup rejects: the catch block shows a toast
\* (not a part of this state) and rethrows the error
Rejected(req) ==
  /\ BagIn(req, authReqs)
  /\ authReqs' = authReqs (-) SetToBag({req})
  /\ last' = [op |-> "rejected", kind |-> req.kind, threw |-> TRUE]
  /\ UNCHANGED <<now, user, stored, locVars, dashVars, fetches, sockVars>>
  /\ UNCHANGED <<queueVars, eventVars>>

\* what unmounting the Dashboard leaves: its state is gone, its poll
\* interval cleared, its socket disconnected, the notifications' pending
\* auto-dismiss timers cleared with them; what is still in flight or
\* scheduled for it finds it unmounted
Unmounted ==
  /\ mounted' = FALSE
  /\ hazards' = <<>>
  /\ loading' = TRUE
  /\ alerts' = <<>>
  /\ pollDue' = Null
  /\ socket' = Null
  /\ channels' = Disconnect(channels, socket)
  /\ fetches' = [live |-> 0, dead |-> fetches.dead + fetches.live]
  /\ dismissTimers' = [k \in DOMAIN dismissTimers |->
                         [dismissTimers[k] EXCEPT !.live = FALSE]]

\* the cleanup of LocationProvider's effect leaves the interval running
LeakInterval(due) == due

\* the cleanup of LocationProvider's effect: clearInterval(intervalId)
ClearInterval(due) == Null

\* Dashboard.handleLogout: logout(); navigate('/login').  isAuthenticated
\* becomes false: the cleanup of LocationProvider's effect runs.
HandleLogout ==
  /\ mounted
  /\ user' = Null
  /\ stored' = RemoveAll(stored)
  /\ locDue' = ClearInterval(locDue)
  /\ Unmounted
  /\ last' = [op |-> "logout"]
  /\ UNCHANGED <<now, authReqs, currentLocation, locationError, geoReqs, pushes>>
  /\ UNCHANGED <<toasts, eventVars, nEnqueued, called>>

----------------------------------------------------------------------------
(* HazardList and HazardMap *)

\* new Date(timestamp).getTime(): milliseconds since the first day
GetTime(ts) == ts.day * 86400000 + ts.ms

\* HazardList's comparator: negative when a comes first
CompareOldestFirst(a, b, loc) ==
  IF loc = Null
    THEN GetTime(Hazard(a).timestamp) - GetTime(Hazard(b).timestamp)
    ELSE DistanceList(loc, Hazard(a).location)
           - DistanceList(loc, Hazard(b).location)

Compare(a, b, loc) ==
  IF loc = Null
    THEN GetTime(Hazard(b).timestamp) - GetTime(Hazard(a).timestamp)
    ELSE DistanceList(loc, Hazard(a).location)
           - DistanceList(loc, Hazard(b).location)

\* Array.prototype.sort on the copy: stable, h put behind every element
\* that does not come after it
RECURSIVE Insert(_, _, _)
Insert(sorted, h, loc) ==
  IF sorted = <<>> THEN <<h>>
  ELSE IF Compare(h, Head(sorted), loc) < 0 THEN <<h>> \o sorted
  ELSE <<Head(sorted)>> \o Insert(Tail(sorted), h, loc)

RECURSIVE Sort(_, _)
Sort(list, loc) ==
  IF list = <<>> THEN <<>>
  ELSE Insert(Sort(SubSeq(list, 1, Len(list) - 1), loc), list[Len(list)], loc)

\* HazardList.sortedHazards: [...hazards].sort(...)
sortedHazards(list, loc) == Sort(list, loc)

\* HazardList renders: the sorted list, and each item's distance when the
\* Position is known
RenderList ==
  /\ mounted
  /\ last' = [op |-> "render_list",
              shown |-> sortedHazards(hazards, currentLocation),
              distance |-> [id \in {hazards[i] : i \in DOMAIN hazards} |->
                             IF currentLocation = Null THEN Null
                             ELSE [m |-> DistanceList(currentLocation,
                                                      Hazard(id).location)]]]
  /\ UNCHANGED <<now, authVars, locVars, dashVars, fetches, sockVars>>
  /\ UNCHANGED <<queueVars, eventVars>>

\* HazardMap renders: a marker per hazard, with its distance when the
\* Position is known and 0 when it is not
RenderMap ==
  /\ mounted
  /\ last' = [op |-> "render_map",
              distance |-> [id \in {hazards[i] : i \in DOMAIN hazards} |->
                             IF currentLocation = Null THEN 0
                             ELSE DistanceMap(currentLocation,
                                              Hazard(id).location)]]
  /\ UNCHANGED <<now, authVars, locVars, dashVars, fetches, sockVars>>
  /\ UNCHANGED <<queueVars, eventVars>>

\* The distance routine applied to the current Position and a location q,
\* as each of its three call sites applies it, and to q and the Position
Measure(q) ==
  /\ mounted
  /\ currentLocation # Null
  /\ last' = [op |-> "distance", from |-> currentLocation, to |-> q,
              dashboard |-> Distance(currentLocation, q),
              list |-> DistanceList(currentLocation, q),
              map |-> DistanceMap(currentLocation, q),
              back |-> Distance(q, currentLocation),
              admits |-> Admits(currentLocation, [location |-> q]),
              admitsBack |-> Admits(q, [location |-> currentLocation])]
  /\ UNCHANGED <<now, authVars, locVars, dashVars, fetches, sockVars>>
  /\ UNCHANGED <<queueVars, eventVars>>

----------------------------------------------------------------------------
(* Dashboard: mounting and the hazard list *)

\* A Dashboard is rendered.  Its effects: the guard (navigate('/login')
\* when not authenticated, which unmounts it again), fetchHazards() and the
\* poll interval, the socket.
MountDashboard ==
  /\ ~mounted
  /\ InFlight < MaxInFlight
  /\ IF IsAuthenticated(user)
       THEN /\ mounted' = TRUE
            /\ fetches' = Fetching(1)
            /\ pollDue' = [at |-> now + PollMs]
            /\ socket' = OpenSocket(user, currentLocation)
            /\ channels' = SocketEffect(channels, Null, socket')
       ELSE /\ fetches' = [fetches EXCEPT !.dead = @ + 1]
            /\ UNCHANGED <<mounted, pollDue, sockVars>>
  /\ last' = [op |-> "mount"]
  /\ UNCHANGED <<now, authVars, locVars, hazards, loading, toasts>>
  /\ UNCHANGED <<queueVars, eventVars>>

\* the user navigates away from the Dashboard
LeaveDashboard ==
  /\ mounted
  /\ Unmounted
  /\ last' = [op |-> "leave"]
  /\ UNCHANGED <<now, authVars, locVars, toasts>>
  /\ UNCHANGED <<eventVars, nEnqueued, called>>

\* the poll interval fires: fetchHazards()
PollTimer ==
  /\ pollDue # Null
  /\ Due(pollDue.at)
  /\ pollDue' = [at |-> pollDue.at + PollMs]
  /\ fetches' = Fetching(1)
  /\ last' = [op |-> "poll"]
  /\ UNCHANGED <<now, authVars, locVars, mounted, hazards, loading, toasts>>
  /\ UNCHANGED <<sockVars, queueVars, eventVars>>

\* the refresh button, disabled while loading
ManualRefresh ==
  /\ mounted
  /\ ~loading
  /\ InFlight < MaxInFlight
  /\ fetches' = Fetching(1)
  /\ last' = [op |-> "refresh"]
  /\ UNCHANGED <<now, authVars, locVars, dashVars, sockVars>>
  /\ UNCHANGED <<queueVars, eventVars>>

\* the request of the mounted Dashboard (live) or of an unmounted one
\* completes
Completed(live) ==
  IF live THEN [fetches EXCEPT !.live = @ - 1] ELSE [fetches EXCEPT !.dead = @ - 1]

Pending(live) == IF live THEN fetches.live > 0 ELSE fetches.dead > 0

\* the calls of fetchHazards that the catch block makes: none
Retry == 0

\* setHazards(response.data)
SetHazards(prev, data) == data

\* the catch block with setHazards([])
ClearHazards(prev) == <<>>

\* what the catch block leaves of the hazards state
KeepHazards(prev) == prev

\* fetchHazards, from a successful response on: setHazards, setLoading(false);
\* a state update of an unmounted Dashboard does nothing
FetchSuccess(live, data) ==
  /\ Pending(live)
  /\ fetches' = Completed(live)
  /\ hazards' = IF live THEN SetHazards(hazards, data) ELSE hazards
  /\ loading' = IF live THEN FALSE ELSE loading
  /\ last' = [op |-> "fetch_ok"]
  /\ UNCHANGED <<now, authVars, locVars, mounted, pollDue, toasts>>
  /\ UNCHANGED <<sockVars, queueVars, eventVars>>

\* fetchHazards, from a failed response on: toast, setLoading(false)
FetchFailure(live) ==
  /\ Pending(live)
  /\ toasts < MaxToasts
  /\ fetches' = [Completed(live) EXCEPT !.live = @ + (IF live THEN Retry ELSE 0)]
  /\ toasts' = toasts + 1
  /\ hazards' = IF live THEN KeepHazards(hazards) ELSE hazards
  /\ loading' = IF live THEN FALSE ELSE loading
  /\ last' = [op |-> "fetch_failed", threw |-> FALSE]
  /\ UNCHANGED <<now, authVars, locVars, mounted, pollDue>>
  /\ UNCHANGED <<sockVars, queueVars, eventVars>>

----------------------------------------------------------------------------
(* LocationProvider *)

\* the isAuthenticated that the callbacks of LocationProvider's effect see:
\* that of the render the effect ran for, and the effect ran because it was
\* true
ClosureIsAuthenticated == TRUE

\* updateLocation with no request to the backend
updateLocationSilent(isAuthenticated, location) == EmptyBag

\* updateLocation: the requests it makes,
\* if (isAuthenticated) hazardAPI.updateLocation(location)
updateLocationPush(isAuthenticated, location) ==
  IF isAuthenticated THEN SetToBag({location}) ELSE EmptyBag

\* the error callbacks with setLocationError in none of them
OnGeoErrorSilent(kind, err) == err

\* the error callbacks: setLocationError(...) in that of the initial sample
OnGeoError(kind, err) == IF kind = "initial" THEN TRUE ELSE err

\* a position callback of getCurrentPosition: updateLocation(location), with
\* the isAuthenticated (true) of the render whose effect made the call.
\* currentLocation is a new object, so the socket effect runs again.
GeoSuccess(kind, p) ==
  /\ BagIn(kind, geoReqs)
  /\ geoReqs' = geoReqs (-) SetToBag({kind})
  /\ currentLocation' = p
  /\ pushes' = pushes (+) updateLocationPush(ClosureIsAuthenticated, p)
  /\ socket' = IF mounted THEN OpenSocket(user, p) ELSE socket
  /\ channels' = IF mounted THEN SocketEffect(channels, socket, socket')
                            ELSE channels
  /\ last' = [op |-> "position", kind |-> kind, location |-> p,
              session |-> IsAuthenticated(user)]
  /\ UNCHANGED <<now, authVars, locationError, locDue, dashVars, fetches>>
  /\ UNCHANGED <<queueVars, eventVars>>

\* an error callback: only the initial sample sets locationError
GeoError(kind) ==
  /\ BagIn(kind, geoReqs)
  /\ geoReqs' = geoReqs (-) SetToBag({kind})
  /\ locationError' = OnGeoError(kind, locationError)
  /\ last' = [op |-> "position_error", kind |-> kind]
  /\ UNCHANGED <<now, authVars, currentLocation, locDue, pushes>>
  /\ UNCHANGED <<dashVars, fetches, sockVars, queueVars, eventVars>>

\* the 30 s interval fires: getCurrentPosition
LocationTimer ==
  /\ locDue # Null
  /\ Due(locDue.at)
  /\ locDue' = [at |-> locDue.at + LocationMs]
  /\ geoReqs' = geoReqs (+) SetToBag({"periodic"})
  /\ last' = [op |-> "sample"]
  /\ UNCHANGED <<now, authVars, currentLocation, locationError, pushes>>
  /\ UNCHANGED <<dashVars, fetches, sockVars, queueVars, eventVars>>

\* a hazardAPI.updateLocation request settles: nothing on success,
\* .catch(console.error) on failure
PushSettled(p, ok) ==
  /\ BagIn(p, pushes)
  /\ pushes' = pushes (-) SetToBag({p})
  /\ last' = [op |-> "push_settled", ok |-> ok, threw |-> FALSE]
  /\ UNCHANGED <<now, authVars, currentLocation, locationError, locDue, geoReqs>>
  /\ UNCHANGED <<dashVars, fetches, sockVars, queueVars, eventVars>>

----------------------------------------------------------------------------
(* Dashboard: the socket and the alert queue *)

\* the queue after the handlers of the sockets chs have run for an event
RECURSIVE EnqueueEach(_, _, _, _)
EnqueueEach(prev, chs, data, alertWithId) ==
  IF chs = <<>> THEN prev
  ELSE EnqueueEach(IF Handles(Head(chs), data) THEN Enqueue(prev, alertWithId)
                                               ELSE prev,
                   Tail(chs), data, alertWithId)

\* the calls of fetchHazards the handlers of the sockets chs make
RECURSIVE RefreshEach(_, _)
RefreshEach(chs, data) ==
  IF chs = <<>> THEN 0
  ELSE AlertRefresh(Handles(Head(chs), data)) + RefreshEach(Tail(chs), data)

\* socket.on('hazard_alert', (data) => ...): the server emits an event and
\* the handler of every open socket runs for it
HazardAlert(data) ==
  LET alertWithId == AlertWithId(data, now, nEvents + 1, currentLocation)
  IN  /\ channels # <<>>
      /\ nEvents < MaxEvents
      /\ nEvents' = nEvents + 1
      /\ alerts' = EnqueueEach(alerts, channels, data, alertWithId)
      /\ nEnqueued' = nEnqueued + Len(alerts') - Len(alerts)
      /\ fetches' = Fetching(RefreshEach(channels, data))
      /\ nAlertFetch' = nAlertFetch + RefreshEach(channels, data)
      /\ last' = [op |-> "hazard_alert", data |-> data, pos |-> currentLocation,
                  handlers |-> Len(channels),
                  threw |-> \E i \in DOMAIN channels : Throws(channels[i].loc, data)]
      /\ UNCHANGED <<now, authVars, locVars, dashVars, sockVars>>
      /\ UNCHANGED <<dismissTimers, called>>

----------------------------------------------------------------------------
(* AlertNotification, one per AlertRecord *)

\* setTimeout(() => setIsVisible(true), 100) fires
SlideInTimer(k) ==
  /\ k \in DOMAIN alerts
  /\ ~alerts[k].slid
  /\ Due(alerts[k].at + SlideInMs)
  /\ alerts' = [alerts EXCEPT ![k].slid = TRUE, ![k].isVisible = TRUE]
  /\ last' = [op |-> "slide_in"]
  /\ UNCHANGED <<now, authVars, locVars, dashVars, fetches, sockVars>>
  /\ UNCHANGED <<dismissTimers, nEnqueued, called, eventVars>>

\* handleDismiss of the notification of alerts[k]:
\* setIsVisible(false); setTimeout(onDismiss, 300)
HandleDismiss(k) ==
  [id |-> alerts[k].id, seq |-> alerts[k].seq, live |-> TRUE,
   due |-> now + DismissDelayMs]

\* the user clicks the X of a notification (once)
ClickDismiss(k) ==
  /\ k \in DOMAIN alerts
  /\ ~alerts[k].clicked
  /\ alerts' = [alerts EXCEPT ![k].isVisible = FALSE, ![k].clicked = TRUE]
  /\ dismissTimers' = Append(dismissTimers, HandleDismiss(k))
  /\ last' = [op |-> "click", seq |-> alerts[k].seq]
  /\ UNCHANGED <<now, authVars, locVars, dashVars, fetches, sockVars>>
  /\ UNCHANGED <<nEnqueued, called, eventVars>>

\* the 10 s timer of a mounted notification fires: handleDismiss()
AutoDismissTimer(k) ==
  /\ k \in DOMAIN alerts
  /\ ~alerts[k].autoFired
  /\ Due(alerts[k].at + AutoDismissMs)
  /\ alerts' = [alerts EXCEPT ![k].isVisible = FALSE, ![k].autoFired = TRUE]
  /\ dismissTimers' = Append(dismissTimers, HandleDismiss(k))
  /\ last' = [op |-> "auto_dismiss", seq |-> alerts[k].seq,
              clicked |-> alerts[k].clicked]
  /\ UNCHANGED <<now, authVars, locVars, dashVars, fetches, sockVars>>
  /\ UNCHANGED <<nEnqueued, called, eventVars>>

\* a setTimeout(onDismiss, 300) fires: dismissAlert(alert.id); the timers
\* all have the same delay, so the oldest is the first due
DismissTimer ==
  /\ dismissTimers # <<>>
  /\ LET t == Head(dismissTimers)
     IN  /\ Due(t.due)
         /\ alerts' = IF t.live THEN dismissAlert(alerts, t.id) ELSE alerts
         /\ called' = called \cup {t.seq}
         /\ last' = [op |-> "dismiss", id |-> t.id, seq |-> t.seq,
                     live |-> t.live, again |-> t.seq \in called]
  /\ dismissTimers' = Tail(dismissTimers)
  /\ UNCHANGED <<now, authVars, locVars, dashVars, fetches, sockVars>>
  /\ UNCHANGED <<nEnqueued, eventVars>>

----------------------------------------------------------------------------
(* Time *)

\* the clock reaches the next timer deadline; a timer that is due fires
\* before the clock moves on
Advance ==
  /\ Deadlines # {}
  /\ \A d \in Deadlines : ~Due(d)
  /\ Min(Deadlines) <= MaxNow
  /\ now' = Min(Deadlines)
  /\ last' = [op |-> "advance"]
  /\ UNCHANGED <<authVars, locVars, dashVars, fetches, sockVars>>
  /\ UNCHANGED <<queueVars, eventVars>>

----------------------------------------------------------------------------
Next ==
  \/ \E uid \in UserIds : CallLogin(uid)
  \/ \E uid \in UserIds, tok \in Tokens : Login(uid, tok)
  \/ HandleLogout
  \/ MountDashboard
  \/ LeaveDashboard
  \/ PollTimer
  \/ ManualRefresh
  \/ \E live \in BOOLEAN, data \in ServerLists : FetchSuccess(live, data)
  \/ \E live \in BOOLEAN : FetchFailure(live)
  \/ \E kind \in {"initial", "periodic"}, p \in UserPositions : GeoSuccess(kind, p)
  \/ \E kind \in {"initial", "periodic"} : GeoError(kind)
  \/ LocationTimer
  \/ \E p \in UserPositions, ok \in BOOLEAN : PushSettled(p, ok)
  \/ \E data \in Inbound : HazardAlert(data)
  \/ \E k \in DOMAIN alerts : SlideInTimer(k)
  \/ \E k \in DOMAIN alerts : ClickDismiss(k)
  \/ \E k \in DOMAIN alerts : AutoDismissTimer(k)
  \/ DismissTimer
  \/ RenderList
  \/ RenderMap
  \/ \E q \in GridPositions : Measure(q)
  \/ \E uid \in UserIds, name \in Names : CallSignup(uid, name)
  \/ \E uid \in UserIds, name \in Names, tok \in Tokens : Signup(uid, name, tok)
  \/ \E uid \in UserIds, name \in Names :
       Rejected(LoginRequest(uid)) \/ Rejected(SignupRequest(uid, name))
  \/ Advance

Spec == Init /\ [][Next]_vars

----------------------------------------------------------------------------
(* One session, from the login and the Dashboard's mount on: the state     *)
(* Login and MountDashboard lead to from Init.                             *)

InitSession ==
  /\ now = 0
  /\ user = [user_id |-> "u1", name |-> "", token |-> "t1"]
  /\ stored = StoreLogin(NoItems, "u1", "t1")
  /\ authReqs = EmptyBag
  /\ currentLocation = Null
  /\ locationError = FALSE
  /\ locDue = [at |-> LocationMs]
  /\ geoReqs = SetToBag({"initial"})
  /\ mounted = TRUE
  /\ hazards = <<>>
  /\ loading = TRUE
  /\ alerts = <<>>
  /\ pollDue = [at |-> PollMs]
  /\ fetches = [live |-> 1, dead |-> 0]
  /\ toasts = 0
  /\ socket = [token |-> "t1", loc |-> Null]
  /\ channels = <<[token |-> "t1", loc |-> Null]>>
  /\ pushes = EmptyBag
  /\ dismissTimers = <<>>
  /\ nEvents = 0
  /\ nEnqueued = 0
  /\ nAlertFetch = 0
  /\ called = {}
  /\ last = [op |-> "mount"]

\* the alert queue within the session: positions, events, notifications
NextQueue ==
  \/ \E kind \in {"initial", "periodic"}, p \in UserPositions : GeoSuccess(kind, p)
  \/ \E kind \in {"initial", "periodic"} : GeoError(kind)
  \/ LocationTimer
  \/ PollTimer
  \/ \E data \in Inbound : HazardAlert(data)
  \/ \E k \in DOMAIN alerts : SlideInTimer(k)
  \/ \E k \in DOMAIN alerts : ClickDismiss(k)
  \/ \E k \in DOMAIN alerts : AutoDismissTimer(k)
  \/ DismissTimer
  \/ Advance

SpecQueue == InitSession /\ [][NextQueue]_vars

\* the hazard list within the session: requests, responses, events
NextFetch ==
  \/ PollTimer
  \/ ManualRefresh
  \/ \E live \in BOOLEAN, data \in ServerLists : FetchSuccess(live, data)
  \/ \E live \in BOOLEAN : FetchFailure(live)
  \/ \E kind \in {"initial", "periodic"}, p \in UserPositions : GeoSuccess(kind, p)
  \/ \E data \in Inbound : HazardAlert(data)
  \/ Advance

SpecFetch == InitSession /\ [][NextFetch]_vars

\* sessions: logins and logouts, the Dashboard mounted and unmounted,
\* position samples and requests
NextSession ==
  \/ \E uid \in UserIds : CallLogin(uid)
  \/ \E uid \in UserIds, tok \in Tokens : Login(uid, tok)
  \/ HandleLogout
  \/ MountDashboard
  \/ LeaveDashboard
  \/ PollTimer
  \/ \E live \in BOOLEAN, data \in ServerLists : FetchSuccess(live, data)
  \/ \E live \in BOOLEAN : FetchFailure(live)
  \/ \E kind \in {"initial", "periodic"}, p \in UserPositions : GeoSuccess(kind, p)
  \/ \E kind \in {"initial", "periodic"} : GeoError(kind)
  \/ LocationTimer
  \/ \E p \in UserPositions, ok \in BOOLEAN : PushSettled(p, ok)
  \/ Advance

SpecSession == Init /\ [][NextSession]_vars

\* the channel over sessions, at one clock reading: logins and logouts, the
\* Dashboard mounted and unmounted, position samples, requests and events
NextChannel ==
  \/ \E uid \in UserIds : CallLogin(uid)
  \/ \E uid \in UserIds, tok \in Tokens : Login(uid, tok)
  \/ HandleLogout
  \/ MountDashboard
  \/ LeaveDashboard
  \/ \E live \in BOOLEAN, data \in ServerLists : FetchSuccess(live, data)
  \/ \E kind \in {"initial", "periodic"}, p \in UserPositions : GeoSuccess(kind, p)
  \/ \E p \in UserPositions, ok \in BOOLEAN : PushSettled(p, ok)
  \/ \E data \in Inbound : HazardAlert(data)

SpecChannel == Init /\ [][NextChannel]_vars

\* the end of the session that InitSession starts: the alert queue within
\* the session, a logout, the Dashboard unmounted
NextTeardown ==
  \/ NextQueue
  \/ HandleLogout
  \/ LeaveDashboard

SpecTeardown == InitSession /\ [][NextTeardown]_vars

\* The page loads with what an earlier visit left stored: nothing, a login's
\* items or a signup's.  AuthProvider's effect has restored the user, and
\* LocationProvider's effect has run for it.
StoredAtLoad ==
  {NoItems} \cup {StoreLogin(NoItems, uid, "t1") : uid \in Accounts}
            \cup {StoreSignup(NoItems, uid, name, "t1") :
                     uid \in Accounts, name \in Names}

InitAuth ==
  /\ now = 0
  /\ stored \in StoredAtLoad
  /\ user = Restore(stored)
  /\ authReqs = EmptyBag
  /\ currentLocation = Null
  /\ locationError = FALSE
  /\ locDue = IF IsAuthenticated(user) THEN [at |-> LocationMs] ELSE Null
  /\ geoReqs = IF IsAuthenticated(user) THEN SetToBag({"initial"}) ELSE EmptyBag
  /\ mounted = FALSE
  /\ hazards = <<>>
  /\ loading = TRUE
  /\ alerts = <<>>
  /\ pollDue = Null
  /\ fetches = [live |-> 0, dead |-> 0]
  /\ toasts = 0
  /\ socket = Null
  /\ channels = <<>>
  /\ pushes = EmptyBag
  /\ dismissTimers = <<>>
  /\ nEvents = 0
  /\ nEnqueued = 0
  /\ nAlertFetch = 0
  /\ called = {}
  /\ last = [op |-> "load"]

\* the session and the stored credentials, at one clock reading: logins
\* and signups of two accounts, their responses in any order, logouts
NextAuth ==
  \/ \E uid \in Accounts : CallLogin(uid)
  \/ \E uid \in Accounts, name \in Names : CallSignup(uid, name)
  \/ \E uid \in Accounts, tok \in Tokens : Login(uid, tok)
  \/ \E uid \in Accounts, name \in Names, tok \in Tokens : Signup(uid, name, tok)
  \/ \E uid \in Accounts, name \in Names :
       Rejected(LoginRequest(uid)) \/ Rejected(SignupRequest(uid, name))
  \/ HandleLogout
  \/ MountDashboard
  \/ \E kind \in {"initial", "periodic"}, p \in {Home} : GeoSuccess(kind, p)
  \/ \E p \in {Home}, ok \in BOOLEAN : PushSettled(p, ok)

SpecAuth == InitAuth /\ [][NextAuth]_vars

\* The Dashboard of a session with its hazard list fetched and its first
\* position sample settled: any list, any Position of the grid or none
InitRender ==
  /\ now = 0
  /\ user = [user_id |-> "u1", name |-> "", token |-> "t1"]
  /\ stored = StoreLogin(NoItems, "u1", "t1")
  /\ authReqs = EmptyBag
  /\ currentLocation \in GridPositions \cup {Null}
  /\ locationError = (currentLocation = Null)
  /\ locDue = [at |-> LocationMs]
  /\ geoReqs = EmptyBag
  /\ mounted = TRUE
  /\ hazards \in HazardLists
  /\ loading = FALSE
  /\ alerts = <<>>
  /\ pollDue = [at |-> PollMs]
  /\ fetches = [live |-> 0, dead |-> 0]
  /\ toasts = 0
  /\ socket = OpenSocket(user, currentLocation)
  /\ channels = <<socket>>
  /\ pushes = EmptyBag
  /\ dismissTimers = <<>>
  /\ nEvents = 0
  /\ nEnqueued = 0
  /\ nAlertFetch = 0
  /\ called = {}
  /\ last = [op |-> "mount"]

\* what the Dashboard shows of its hazards and the current Position
NextRender ==
  \/ RenderList
  \/ RenderMap
  \/ \E q \in GridPositions : Measure(q)

SpecRender == InitRender /\ [][NextRender]_vars

----------------------------------------------------------------------------
(* Properties *)

RadiusM == AdmissionRadiusKm * 1000

\* the record of the event handled last is the newest of the queue
LastAdmitted ==
  /\ alerts # <<>>
  /\ alerts[Len(alerts)].seq = nEvents
  /\ alerts[Len(alerts)].location = last.data.location

\* C1: with a current Position P known, an inbound hazard_alert event is
\* admitted (one AlertRecord for it is appended to the queue) if and only if
\* the distance between P and the event's location is at most 3 km; an
\* event that is not admitted leaves the queue as it was.
C1_AdmittedIffWithinRadius ==
  [][\A data \in Events :
       (HazardAlert(data) /\ currentLocation # Null) =>
         IF Distance(currentLocation, data.location) <= RadiusM
           THEN /\ Len(alerts') = Len(alerts) + 1
                /\ SubSeq(alerts', 1, Len(alerts)) = alerts
                /\ alerts'[Len(alerts')].location = data.location
           ELSE alerts' = alerts]_vars

\* C1, its case: an event at exactly 3000 m of the current Position has
\* been admitted
C1_Witness ==
  /\ last.op = "hazard_alert"
  /\ last.pos # Null
  /\ last.data \in Events
  /\ Distance(last.pos, last.data.location) = RadiusM
  /\ LastAdmitted

\* C2: while no current Position is known, an inbound hazard_alert event
\* is not admitted, whatever its content: the queue stays as it is and the
\* event triggers no request for the hazard list.
C2_NoPositionNoAdmission ==
  [][\A data \in Events :
       (HazardAlert(data) /\ currentLocation = Null) =>
         /\ alerts' = alerts
         /\ fetches' = fetches
         /\ nAlertFetch' = nAlertFetch]_vars

\* C2, its case: an event has been handled while no Position was known
C2_Witness ==
  /\ last.op = "hazard_alert"
  /\ last.pos = Null
  /\ currentLocation = Null
  /\ alerts = <<>>

\* every record of the queue was within the radius of the Position that
\* was current when its event arrived
WithinRadiusAtArrival ==
  \A k \in DOMAIN alerts :
    /\ alerts[k].pos # Null
    /\ Distance(alerts[k].pos, alerts[k].location) <= RadiusM

\* C3: every AlertRecord of the queue was within 3 km of the Position that
\* was current when its event arrived, and a change of the current Position
\* leaves the queue as it is.
C3_AdmissionAtArrivalOnly ==
  /\ []WithinRadiusAtArrival
  /\ [][currentLocation' # currentLocation => alerts' = alerts]_vars

\* C3, its case: the Position has changed since a record was admitted, and
\* the record, now out of the radius, is still in the queue
C3_Witness ==
  /\ last.op = "position"
  /\ \E k \in DOMAIN alerts :
       /\ alerts[k].pos # currentLocation
       /\ Distance(currentLocation, alerts[k].location) > RadiusM

Age(alert) == now - alert.at

Leaves(alert) == \A j \in DOMAIN alerts' : alerts'[j].seq # alert.seq

\* C4: an AlertRecord that the user has not dismissed leaves the queue at
\* an age of at least 10 s and less than 11 s: it is not removed earlier and
\* it does not stay longer.
C4_AutoExpiryWindow ==
  /\ [](\A k \in DOMAIN alerts :
          ~alerts[k].clicked => Age(alerts[k]) < AutoDismissMs + 1000)
  /\ [][\A k \in DOMAIN alerts :
          (~alerts[k].clicked /\ Leaves(alerts[k])) =>
            /\ Age(alerts[k]) >= AutoDismissMs
            /\ Age(alerts[k]) < AutoDismissMs + 1000]_vars

\* C5: once the user has dismissed an AlertRecord, its 10 s auto-expiry
\* callback does not run any more, and the queue's dismiss operation is
\* called at most once for the record.
C5_DismissCancelsAutoExpiry ==
  /\ last.op = "auto_dismiss" => ~last.clicked
  /\ last.op = "dismiss" => ~last.again

\* C6: no two AlertRecords of the queue have the same id.
C6_UniqueIds ==
  \A i, j \in DOMAIN alerts : i # j => alerts[i].id # alerts[j].id

IdsOf(q) == {q[k].id : k \in DOMAIN q}

\* r holds the records of q whose id is not id, in the order they have in q
KeepsOthers(q, r, id) ==
  LET kept == {k \in DOMAIN q : q[k].id # id}
  IN  /\ Len(r) = Cardinality(kept)
      /\ {r[j] : j \in DOMAIN r} = {q[k] : k \in kept}
      /\ \A i, j \in DOMAIN r : i < j => r[i].seq < r[j].seq

\* C7: dismiss(id) removes the record(s) with that id and keeps every record
\* with another id, in the same relative order; with no record of that id
\* the queue is unchanged; dismissing twice is dismissing once; enqueue on
\* the empty queue, then dismiss of the new record's id, gives the empty
\* queue.
C7_DismissById ==
  /\ \A id \in IdsOf(alerts) \cup {now + 1} :
       LET r == dismissAlert(alerts, id)
       IN  /\ id \notin IdsOf(r)
           /\ KeepsOthers(alerts, r, id)
           /\ id \notin IdsOf(alerts) => r = alerts
           /\ dismissAlert(r, id) = r
  /\ \A k \in DOMAIN alerts :
       dismissAlert(Enqueue(<<>>, alerts[k]), alerts[k].id) = <<>>
  /\ (last.op = "dismiss" /\ last.live) => last.id \notin IdsOf(alerts)

\* C7, its case: a dismiss has removed a record and left another one
C7_Witness ==
  /\ last.op = "dismiss"
  /\ last.seq \in called
  /\ alerts # <<>>
  /\ \A k \in DOMAIN alerts : alerts[k].seq # last.seq

\* C8: the queue is in arrival order, oldest first.
C8_ArrivalOrder ==
  \A i, j \in DOMAIN alerts : i < j => alerts[i].seq < alerts[j].seq

\* C8, its case: two events admitted one after the other
C8_Witness ==
  /\ last.op = "hazard_alert"
  /\ Len(alerts) = 2
  /\ alerts[1].seq = 1
  /\ alerts[2].seq = 2

\* C9: an admitted event makes exactly one request for the hazard list and
\* an event that is not admitted makes none, so the requests made for
\* events are as many as the AlertRecords enqueued.
C9_OneRefreshPerAdmission ==
  /\ [](nAlertFetch = nEnqueued)
  /\ [][\A data \in Events :
          HazardAlert(data) =>
            fetches'.live - fetches.live = Len(alerts') - Len(alerts)]_vars

\* C9, its case: of the events handled, one was admitted and one was not
C9_Witness ==
  /\ nEnqueued = 1
  /\ nEvents = 2
  /\ nAlertFetch = 1

\* C10: a failed request for the hazard list leaves the alert queue and the
\* hazard list as they were, shows one toast, throws nothing and makes no
\* new request.
C10_FetchFailure ==
  [][\A live \in BOOLEAN :
       FetchFailure(live) =>
         /\ alerts' = alerts
         /\ hazards' = hazards
         /\ toasts' = toasts + 1
         /\ ~last'.threw
         /\ fetches'.live + fetches'.dead = fetches.live + fetches.dead - 1]_vars

\* C10, its case: a request has failed with a hazard list fetched before
\* and a record in the queue
C10_Witness ==
  /\ last.op = "fetch_failed"
  /\ hazards # <<>>
  /\ alerts # <<>>
  /\ toasts = 1

\* C11: at most one socket is open at any time, so an event runs one
\* handler and gives at most one AlertRecord; when the socket effect runs
\* again the old socket is closed before the new one is opened.
C11_OneChannel ==
  /\ [](Len(channels) <= 1)
  /\ [][\A data \in Inbound :
          HazardAlert(data) =>
            /\ Len(channels) = 1
            /\ Len(alerts') <= Len(alerts) + 1]_vars

\* C11, its case: a login with another token while the Dashboard is mounted
\* has re-established the channel
C11_Witness ==
  /\ last.op = "login"
  /\ last.reopened
  /\ channels = <<socket>>
  /\ socket.token = user.token

\* C12: every open socket was opened with the token of the current user;
\* with no user, or with no Dashboard mounted, no socket is open.
C12_ChannelClosedOnExit ==
  /\ \A i \in DOMAIN channels :
       /\ IsAuthenticated(user)
       /\ channels[i].token = user.token
  /\ (~IsAuthenticated(user) \/ ~mounted) => channels = <<>>

\* C12, its case: a logout has ended a session that had its socket open and
\* had handled an event
C12_Witness ==
  /\ last.op = "logout"
  /\ nEvents > 0
  /\ channels = <<>>

\* C13: while the user is the same and the Dashboard stays mounted, the
\* socket opened at the start stays as it is: no step closes it or opens
\* another one, a Position update included.
C13_OneConnectionPerSession ==
  [][(mounted /\ mounted' /\ user' = user) => channels' = channels]_vars

\* C14: the queue holds at most one AlertRecord for a hazard event: no two
\* records have the same content.
C14_Deduplicated ==
  \A i, j \in DOMAIN alerts :
    i # j => alerts[i].location # alerts[j].location

\* C15: once the user has logged out, what was in flight for the session
\* and completes now is discarded: the current Position and the hazard list
\* stay as they are and no Position is pushed.  (Samples are requested in
\* sessions only, so a sample that completes with no user is a late one.)
C15_LateResultsDiscarded ==
  [][(~IsAuthenticated(user) /\ ~IsAuthenticated(user')) =>
       /\ currentLocation' = currentLocation
       /\ hazards' = hazards
       /\ BagCardinality(pushes') <= BagCardinality(pushes)]_vars

\* C16: an event with no location raises nothing, leaves the queue as it
\* is and makes no request for the hazard list, with a Position known or
\* not.
C16_MalformedNotAdmitted ==
  [][HazardAlert(Malformed) =>
       /\ ~last'.threw
       /\ alerts' = alerts
       /\ fetches' = fetches]_vars

\* C17: the 30 s sampling interval runs only while a user is logged in: a
\* logout clears it, it fires only for a logged-in user, and with no user no
\* new sample is requested.
C17_SamplingScopedToSession ==
  /\ [](~IsAuthenticated(user) => locDue = Null)
  /\ [][LocationTimer => IsAuthenticated(user)]_vars
  /\ [][(~IsAuthenticated(user) /\ ~IsAuthenticated(user')) =>
          BagCardinality(geoReqs') <= BagCardinality(geoReqs)]_vars

\* C17, its case: a logout after the interval has fired
C17_Witness ==
  /\ last.op = "logout"
  /\ now >= LocationMs
  /\ locDue = Null

\* C18: once the Dashboard is unmounted, by a logout or otherwise, none of
\* its timers is pending and no timer callback runs for it.
C18_TimersTornDown ==
  /\ ~mounted => pollDue = Null
  /\ ~IsAuthenticated(user) => locDue = Null
  /\ \A k \in DOMAIN dismissTimers : dismissTimers[k].live
  /\ last.op = "dismiss" => last.live

\* C19: a login of a logged-out user requests one immediate sample and
\* starts the interval; when the immediate sample fails, locationError is
\* set, the current Position stays, nothing is pushed, and the interval,
\* the poll interval, the socket and the requests in flight stay as they
\* are.
C19_InitialSampleFailure ==
  /\ [][\A uid \in UserIds, tok \in Tokens :
          (~IsAuthenticated(user) /\ Login(uid, tok)) =>
            /\ geoReqs' = geoReqs (+) SetToBag({"initial"})
            /\ locDue' = [at |-> now + LocationMs]]_vars
  /\ [][GeoError("initial") =>
          /\ locationError'
          /\ currentLocation' = currentLocation
          /\ pushes' = pushes
          /\ locDue' = locDue
          /\ IsAuthenticated(user) => locDue' # Null
          /\ pollDue' = pollDue
          /\ channels' = channels
          /\ fetches' = fetches]_vars

\* C19, its case: the immediate sample has failed with the Dashboard
\* mounted; the intervals run and the socket is open
C19_Witness ==
  /\ last.op = "position_error"
  /\ last.kind = "initial"
  /\ locationError
  /\ currentLocation = Null
  /\ locDue # Null
  /\ pollDue # Null
  /\ channels # <<>>

\* C20: in a session a successful sample sets the current Position to the
\* sampled value and makes one push of that value; a push that fails leaves
\* the current Position and raises nothing; a periodic sample that fails
\* leaves the current Position and locationError.
C20_SamplePushedOnce ==
  /\ [][\A kind \in {"initial", "periodic"}, p \in UserPositions :
          (IsAuthenticated(user) /\ GeoSuccess(kind, p)) =>
            /\ currentLocation' = p
            /\ pushes' = pushes (+) SetToBag({p})]_vars
  /\ [][\A p \in UserPositions :
          PushSettled(p, FALSE) =>
            /\ currentLocation' = currentLocation
            /\ ~last'.threw]_vars
  /\ [][GeoError("periodic") =>
          /\ currentLocation' = currentLocation
          /\ locationError' = locationError]_vars

\* C20, its case: a periodic sample has succeeded in a session and its
\* Position is being pushed
C20_Witness ==
  /\ last.op = "position"
  /\ last.kind = "periodic"
  /\ last.session
  /\ currentLocation = last.location
  /\ BagIn(currentLocation, pushes)

----------------------------------------------------------------------------
(* The distance routine and the hazard list *)

\* what applying the routine or rendering must leave alone
programVars == <<now, authVars, locVars, dashVars, fetches, sockVars, queueVars,
                 eventVars>>

\* C21: the distance routine is pure and the same at its three call sites:
\* applied to the same two positions, Dashboard's, HazardList's and
\* HazardMap's routines return the same value, the distances HazardList
\* and HazardMap show for a hazard are the value Dashboard's routine gives
\* for it, and applying them changes no state of the program.
C21_SameRoutineEverywhere ==
  [][/\ UNCHANGED programVars
     /\ last'.op = "distance" =>
          /\ last'.dashboard = last'.list
          /\ last'.list = last'.map
     /\ (last'.op = "render_list" /\ currentLocation # Null) =>
          \A id \in DOMAIN last'.distance :
            last'.distance[id].m = Distance(currentLocation, Hazard(id).location)
     /\ (last'.op = "render_map" /\ currentLocation # Null) =>
          \A id \in DOMAIN last'.distance :
            last'.distance[id] = Distance(currentLocation, Hazard(id).location)
    ]_vars

C21_Witness ==
  /\ last.op = "distance"
  /\ last.from.lat # last.to.lat
  /\ last.from.lon # last.to.lon
  /\ last.dashboard > 0
  /\ last.map = last.dashboard

\* C22: the distance from a position to itself is 0, so an event exactly at
\* the current Position is admitted.
C22_ZeroAtSamePosition ==
  (last.op = "distance" /\ last.from = last.to) =>
    /\ last.dashboard = 0
    /\ last.admits

C22_Witness ==
  /\ last.op = "distance"
  /\ last.from = last.to
  /\ last.from = currentLocation
  /\ last.admits

\* C23: the distance is symmetric: from the Position to a location it is
\* what it is from the location to the Position, and the admission decision
\* is the same whichever of the two is the user's Position.
C23_Symmetric ==
  last.op = "distance" =>
    /\ last.dashboard = last.back
    /\ last.admits = last.admitsBack

C23_Witness ==
  /\ last.op = "distance"
  /\ last.from.lat # last.to.lat
  /\ last.from.lon # last.to.lon
  /\ last.admits
  /\ last.admitsBack

Ids(list) == {list[i] : i \in DOMAIN list}

\* C24: the list HazardList shows is a permutation of the fetched list, and
\* the fetched list is not reordered; with a Position it is in
\* non-decreasing distance from the Position, with none in non-increasing
\* timestamp.
C24_ShownListSorted ==
  [][last'.op = "render_list" =>
       LET shown == last'.shown
       IN  /\ hazards' = hazards
           /\ Len(shown) = Len(hazards)
           /\ \A id \in HazardIds :
                Cardinality({i \in DOMAIN shown : shown[i] = id})
                  = Cardinality({i \in DOMAIN hazards : hazards[i] = id})
           /\ \A i, j \in DOMAIN shown :
                i < j =>
                  IF currentLocation # Null
                    THEN Distance(currentLocation, Hazard(shown[i]).location)
                           <= Distance(currentLocation, Hazard(shown[j]).location)
                    ELSE GetTime(Hazard(shown[i]).timestamp)
                           >= GetTime(Hazard(shown[j]).timestamp)
    ]_vars

C24_Witness ==
  /\ last.op = "render_list"
  /\ currentLocation = Null
  /\ Len(hazards) = 3
  /\ last.shown # hazards
  /\ Ids(last.shown) = Ids(hazards)

----------------------------------------------------------------------------
(* Sessions: the Position and the stored credentials *)

\* C25: the current Position belongs to one session: a logout resets it, so
\* the next session starts with no Position known and admits no event until
\* its own first successful sample.
C25_PositionResetOnLogout ==
  [][HandleLogout => currentLocation' = Null]_vars

\* C26: the in-memory session and the stored credentials agree, whatever
\* the logins, signups and logouts and the order of their responses:
\* whenever a user is set the stored token and user id are the user's; a
\* logout leaves no user set and no token, user id or name stored; a failed
\* login or signup leaves the user and the stored items unchanged and
\* rethrows.
C26_SessionMatchesStorage ==
  /\ [](user # Null =>
          /\ getItem(stored, "token") = [value |-> user.token]
          /\ getItem(stored, "user_id") = [value |-> user.user_id])
  /\ [][HandleLogout =>
          /\ user' = Null
          /\ getItem(stored', "token") = Null
          /\ getItem(stored', "user_id") = Null
          /\ getItem(stored', "name") = Null]_vars
  /\ [][last'.op = "rejected" =>
          /\ user' = user
          /\ stored' = stored
          /\ last'.threw]_vars

\* a second account's login answered after a signup's items were stored
C26_Witness ==
  /\ last.op = "login"
  /\ user.user_id = "u2"
  /\ getItem(stored, "user_id") = [value |-> "u2"]
  /\ getItem(stored, "name") # Null

============================================================================
